---- MODULE Spec2Model ----
(***************************************************************************)
(* Model of packages/transform/src/map-template-contents.ts:               *)
(* mapTemplateContents, its scoped capture (captureMapping), the emit      *)
(* primitives and the line-offset index (calculateLineOffsets).            *)
(*                                                                         *)
(* Strings are sequences of one-character strings.  Arrays used as stacks  *)
(* with unshift/shift have their top at index 1.                           *)
(***************************************************************************)
EXTENDS Integers, Sequences, FiniteSets, TLC

\* ---------------------------------------------------------------- bounds
\* Number of driver operations in one rewrite.
MaxOps == 4
\* Number of captureMapping calls that may be executing at once.
MaxDepth == 2

\* Length of the templates given to the line-offset index on its own.
MaxLen == 3

\* ---------------------------------------------------------------- inputs
\* Templates handed to mapTemplateContents.
Templates == {<<"a", "\n", "b">>, <<" ", "x", " ">>}
\* Messages of the errors the external parser may throw.
ParseErrors == {"unclosed block"}
\* Messages of the errors a driver callback may throw.
DriverErrors == {"boom"}
\* Values the driver passes to emit.text.
TextValues == {<<>>, <<"t">>}
\* hbsLength left out by the caller of emit.identifier.
Undefined == -1
\* Arguments <<value, hbsOffset, hbsLength>> the driver passes to
\* emit.identifier.
IdentifierArgs == {<<<<"i">>, 0, Undefined>>, <<<<>>, 2, 1>>}
\* Character spans [from, to) and types of the AST nodes (other than the
\* template itself) the driver passes to emit.forNode.
NodeSpans == {<<0, 1, "ElementNode">>, <<1, 3, "TextNode">>}

\* ---------------------------------------------------------------- strings
\* Characters matched by \s in LEADING_WHITESPACE / TRAILING_WHITESPACE.
Whitespace == {" ", "\n", "\t"}

RECURSIVE Join(_)
\* segments.join(''): concatenation of a sequence of strings.
Join(segs) ==
  IF segs = <<>> THEN <<>> ELSE Head(segs) \o Join(Tail(segs))

RECURSIVE TotalLength(_)
\* Sum of the lengths of the segments held in every scope of a segment stack.
TotalLength(stack) ==
  IF stack = <<>> THEN 0 ELSE Len(Join(Head(stack))) + TotalLength(Tail(stack))

\* String.prototype.slice(n) for n >= 0: the string without its first n
\* characters (empty when it is shorter).
Slice(s, n) == SubSeq(s, n + 1, Len(s))

RECURSIVE Split(_, _)
\* template.split('\n'): the lines of s, without their terminators.
Split(s, sep) ==
  IF \A i \in 1..Len(s) : s[i] # sep
  THEN <<s>>
  ELSE LET i == CHOOSE k \in 1..Len(s) :
                  s[k] = sep /\ \A j \in 1..(k - 1) : s[j] # sep
       IN <<SubSeq(s, 1, i - 1)>> \o Split(SubSeq(s, i + 1, Len(s)), sep)

RECURSIVE LeadingRun(_)
\* Length of the match of /^\s+/ (0 when there is none).
LeadingRun(s) ==
  IF s # <<>> /\ Head(s) \in Whitespace THEN 1 + LeadingRun(Tail(s)) ELSE 0

RECURSIVE TrailingRun(_)
\* Length of the match of /\s+$/ (0 when there is none).
TrailingRun(s) ==
  IF s # <<>> /\ s[Len(s)] \in Whitespace
  THEN 1 + TrailingRun(SubSeq(s, 1, Len(s) - 1))
  ELSE 0

\* ---------------------------------------------------------------- parser
\* Line/column location (1-indexed line, 0-indexed column) that the external
\* parser reports for the character index i of the template t.
PosOf(t, i) ==
  LET breaks == {k \in 1..i : t[k] = "\n"}
      last == IF breaks = {} THEN 0
              ELSE CHOOSE k \in breaks : \A j \in breaks : j <= k
  IN [line |-> 1 + Cardinality(breaks), column |-> i - last]

\* A node of the tree the external parser returns: type tag, location and,
\* for a text node, its literal text.
AstNode(t, from, to, type) ==
  [type |-> type,
   loc |-> [start |-> PosOf(t, from), end |-> PosOf(t, to)],
   chars |-> IF type = "TextNode" THEN SubSeq(t, from + 1, to) ELSE <<>>,
   name |-> <<>>]

\* The AST.Template node returned by preprocess(template).
TemplateNode(t) == AstNode(t, 0, Len(t), "Template")

\* The nodes of the parsed template a driver can reach.
AstNodes(t) ==
  {TemplateNode(t)} \cup
  {AstNode(t, sp[1], sp[2], sp[3]) : sp \in {s \in NodeSpans : s[2] <= Len(t)}}

\* new Identifier(name); carries the fields of a node so that origins of both
\* kinds can sit in one tree.
Identifier(name) ==
  [type |-> "Identifier",
   loc |-> [start |-> [line |-> 0, column |-> 0], end |-> [line |-> 0, column |-> 0]],
   chars |-> <<>>,
   name |-> name]

\* ---------------------------------------------------------------- line offsets
RECURSIVE LineTotal_NoTerminator(_, _)
\* `total` with `total += line.length`, the terminator left out.
LineTotal_NoTerminator(lines, n) ==
  IF n = 0 THEN 0 ELSE LineTotal_NoTerminator(lines, n - 1) + Len(lines[n])

RECURSIVE LineTotal(_, _)
\* `total` after the first n iterations of the loop of calculateLineOffsets.
LineTotal(lines, n) ==
  IF n = 0 THEN 0 ELSE LineTotal(lines, n - 1) + Len(lines[n]) + 1

\* The `offsets` array of calculateLineOffsets: offsets[0] = 0 and
\* offsets[index + 1] = total before line index is added.
LineOffsets(template) ==
  LET lines == Split(template, "\n")
  IN [l \in 0..Len(lines) |-> IF l = 0 THEN 0 ELSE LineTotal(lines, l - 1)]

\* The closure without the test `leading !== node.chars.length`.
rangeForNode_TrimAlways(template, node) ==
  LET offsets == LineOffsets(template)
      start == offsets[node.loc.start.line] + node.loc.start.column
      end == offsets[node.loc.end.line] + node.loc.end.column
  IN IF node.type = "TextNode"
     THEN [start |-> start + LeadingRun(node.chars),
           end |-> end - TrailingRun(node.chars)]
     ELSE [start |-> start, end |-> end]

\* The closure returned by calculateLineOffsets, applied to node.
rangeForNode(template, node) ==
  LET offsets == LineOffsets(template)
      start == offsets[node.loc.start.line] + node.loc.start.column
      end == offsets[node.loc.end.line] + node.loc.end.column
      leading == LeadingRun(node.chars)
      trailing == TrailingRun(node.chars)
  IN IF node.type = "TextNode" /\ leading # Len(node.chars)
     THEN [start |-> start + leading, end |-> end - trailing]
     ELSE [start |-> start, end |-> end]

\* ---------------------------------------------------------------- mapping tree
\* new MappingTree(transformedRange, originalRange, children, source)
MappingTree(tsRange, hbsRange, children, source) ==
  [outputRange |-> tsRange, sourceRange |-> hbsRange,
   children |-> children, source |-> source]

\* ---------------------------------------------------------------- emission state
\* The closure state of one mapTemplateContents call, as a record, so that
\* the emit primitives below are functions from state to state.
EmissionInit ==
  [segmentsStack |-> << <<>> >>,
   mappingsStack |-> << <<>> >>,
   indent |-> <<>>,
   offset |-> 0,
   needsIndent |-> FALSE,
   errors |-> <<>>]

\* emit.indent adding one space.
EmitIndent_OneSpace(st) == [st EXCEPT !.indent = st.indent \o <<" ">>]

\* emit.indent()
EmitIndent(st) == [st EXCEPT !.indent = st.indent \o <<" ", " ">>]

\* emit.dedent()
EmitDedent(st) == [st EXCEPT !.indent = Slice(st.indent, 2)]

\* emit.newline()
EmitNewline(st) ==
  [st EXCEPT !.offset = st.offset + 1,
             !.segmentsStack[1] = Append(st.segmentsStack[1], <<"\n">>),
             !.needsIndent = TRUE]

\* emit.text advancing offset by the length of value only.
EmitText_IndentUncounted(st, value) ==
  LET pre == IF st.needsIndent
             THEN [st EXCEPT !.segmentsStack[1] = Append(st.segmentsStack[1], st.indent),
                             !.needsIndent = FALSE]
             ELSE st
  IN [pre EXCEPT !.offset = pre.offset + Len(value),
                 !.segmentsStack[1] = Append(pre.segmentsStack[1], value)]

\* emit.text without `needsIndent = false`.
EmitText_KeepPending(st, value) ==
  LET pre == IF st.needsIndent
             THEN [st EXCEPT !.offset = st.offset + Len(st.indent),
                             !.segmentsStack[1] = Append(st.segmentsStack[1], st.indent)]
             ELSE st
  IN [pre EXCEPT !.offset = pre.offset + Len(value),
                 !.segmentsStack[1] = Append(pre.segmentsStack[1], value)]

\* emit.text without the test of needsIndent.
EmitText_AlwaysIndents(st, value) ==
  [st EXCEPT !.offset = st.offset + Len(st.indent) + Len(value),
             !.segmentsStack[1] = st.segmentsStack[1] \o <<st.indent, value>>,
             !.needsIndent = FALSE]

\* emit.text(value)
EmitText(st, value) ==
  LET pre == IF st.needsIndent
             THEN [st EXCEPT !.offset = st.offset + Len(st.indent),
                             !.segmentsStack[1] = Append(st.segmentsStack[1], st.indent),
                             !.needsIndent = FALSE]
             ELSE st
  IN [pre EXCEPT !.offset = pre.offset + Len(value),
                 !.segmentsStack[1] = Append(pre.segmentsStack[1], value)]

\* captureMapping up to the call of the callback: the two unshifts.
CaptureEnter(st) ==
  [st EXCEPT !.segmentsStack = << <<>> >> \o st.segmentsStack,
             !.mappingsStack = << <<>> >> \o st.mappingsStack]

\* The catch block without `offset = start`.
CaptureCatch_NoReset(st, start, hbsRange, message) ==
  [st EXCEPT !.errors = Append(st.errors, [message |-> message, location |-> hbsRange])]

\* The catch block without `errors.push(...)`.
CaptureCatch_Swallow(st, start, hbsRange, message) ==
  [st EXCEPT !.offset = start]

\* The catch block assigning a fresh errors array instead of pushing.
CaptureCatch_ReplaceErrors(st, start, hbsRange, message) ==
  [st EXCEPT !.errors = <<[message |-> message, location |-> hbsRange]>>,
             !.offset = start]

\* The catch block also clearing the indentation prefix.
CaptureCatch_ResetIndent(st, start, hbsRange, message) ==
  [st EXCEPT !.errors = Append(st.errors, [message |-> message, location |-> hbsRange]),
             !.offset = start,
             !.indent = <<>>]

\* The catch block of captureMapping.
CaptureCatch(st, start, hbsRange, message) ==
  [st EXCEPT !.errors = Append(st.errors, [message |-> message, location |-> hbsRange]),
             !.offset = start]

\* The end of captureMapping handing the nodes committed inside a scope to
\* the parent scope when the scope itself is dropped.
CaptureExit_LeakChildren(st, start, hbsRange, source) ==
  LET mappings == st.mappingsStack[1]
      segments == st.segmentsStack[1]
      popped == [st EXCEPT !.mappingsStack = Tail(st.mappingsStack),
                           !.segmentsStack = Tail(st.segmentsStack)]
  IN IF start # st.offset
     THEN [popped EXCEPT
             !.mappingsStack[1] =
                Append(popped.mappingsStack[1],
                       MappingTree([start |-> start, end |-> st.offset],
                                   hbsRange, mappings, source)),
             !.segmentsStack[1] = popped.segmentsStack[1] \o segments]
     ELSE [popped EXCEPT !.mappingsStack[1] = popped.mappingsStack[1] \o mappings]

\* The end of captureMapping flushing the segments outside the test
\* `start !== offset`.
CaptureExit_AlwaysFlush(st, start, hbsRange, source) ==
  LET mappings == st.mappingsStack[1]
      segments == st.segmentsStack[1]
      popped == [st EXCEPT !.mappingsStack = Tail(st.mappingsStack),
                           !.segmentsStack = Tail(st.segmentsStack)]
      flushed == [popped EXCEPT !.segmentsStack[1] = popped.segmentsStack[1] \o segments]
  IN IF start # st.offset
     THEN [flushed EXCEPT
             !.mappingsStack[1] =
                Append(popped.mappingsStack[1],
                       MappingTree([start |-> start, end |-> st.offset],
                                   hbsRange, mappings, source))]
     ELSE flushed

\* The end of captureMapping without the test `start !== offset`.
CaptureExit_CommitAlways(st, start, hbsRange, source) ==
  LET mappings == st.mappingsStack[1]
      segments == st.segmentsStack[1]
      popped == [st EXCEPT !.mappingsStack = Tail(st.mappingsStack),
                           !.segmentsStack = Tail(st.segmentsStack)]
  IN [popped EXCEPT
        !.mappingsStack[1] =
           Append(popped.mappingsStack[1],
                  MappingTree([start |-> start, end |-> st.offset],
                              hbsRange, mappings, source)),
        !.segmentsStack[1] = popped.segmentsStack[1] \o segments]

\* The end of captureMapping passing tsRange where MappingTree expects
\* hbsRange.
CaptureExit_SwappedRanges(st, start, hbsRange, source) ==
  LET mappings == st.mappingsStack[1]
      segments == st.segmentsStack[1]
      popped == [st EXCEPT !.mappingsStack = Tail(st.mappingsStack),
                           !.segmentsStack = Tail(st.segmentsStack)]
  IN IF start # st.offset
     THEN [popped EXCEPT
             !.mappingsStack[1] =
                Append(popped.mappingsStack[1],
                       MappingTree([start |-> start, end |-> st.offset],
                                   [start |-> start, end |-> st.offset],
                                   mappings, source)),
             !.segmentsStack[1] = popped.segmentsStack[1] \o segments]
     ELSE popped

\* The end of captureMapping with unshift in place of push for the new node.
CaptureExit_Prepend(st, start, hbsRange, source) ==
  LET mappings == st.mappingsStack[1]
      segments == st.segmentsStack[1]
      popped == [st EXCEPT !.mappingsStack = Tail(st.mappingsStack),
                           !.segmentsStack = Tail(st.segmentsStack)]
  IN IF start # st.offset
     THEN [popped EXCEPT
             !.mappingsStack[1] =
                <<MappingTree([start |-> start, end |-> st.offset],
                              hbsRange, mappings, source)>> \o popped.mappingsStack[1],
             !.segmentsStack[1] = popped.segmentsStack[1] \o segments]
     ELSE popped

\* The end of captureMapping with the two shifts inside the test
\* `start !== offset`.
CaptureExit_ShiftInsideIf(st, start, hbsRange, source) ==
  LET mappings == st.mappingsStack[1]
      segments == st.segmentsStack[1]
      popped == [st EXCEPT !.mappingsStack = Tail(st.mappingsStack),
                           !.segmentsStack = Tail(st.segmentsStack)]
  IN IF start # st.offset
     THEN [popped EXCEPT
             !.mappingsStack[1] =
                Append(popped.mappingsStack[1],
                       MappingTree([start |-> start, end |-> st.offset],
                                   hbsRange, mappings, source)),
             !.segmentsStack[1] = popped.segmentsStack[1] \o segments]
     ELSE st

\* captureMapping after the try statement: the two shifts and the
\* conditional commit to the parent scope.
CaptureExit(st, start, hbsRange, source) ==
  LET mappings == st.mappingsStack[1]
      segments == st.segmentsStack[1]
      popped == [st EXCEPT !.mappingsStack = Tail(st.mappingsStack),
                           !.segmentsStack = Tail(st.segmentsStack)]
  IN IF start # st.offset
     THEN [popped EXCEPT
             !.mappingsStack[1] =
                Append(popped.mappingsStack[1],
                       MappingTree([start |-> start, end |-> st.offset],
                                   hbsRange, mappings, source)),
             !.segmentsStack[1] = popped.segmentsStack[1] \o segments]
     ELSE popped

\* emit.identifier(value, hbsOffset, hbsLength): a whole captureMapping call
\* whose callback is emit.text(value), which cannot throw.
EmitIdentifier(st, value, hbsOffset, hbsLength) ==
  LET len == IF hbsLength = Undefined THEN Len(value) ELSE hbsLength
      hbsRange == [start |-> hbsOffset, end |-> hbsOffset + len]
  IN CaptureExit(EmitText(CaptureEnter(st), value), st.offset, hbsRange, Identifier(value))

\* ---------------------------------------------------------------- state
VARIABLES
  pc,            \* position in mapTemplateContents: "start", "driver" (inside
                 \* callback(ast, mapper)), "returned", "escaped" (an exception
                 \* left mapTemplateContents)
  template,      \* the template argument
  ast,           \* <<>> before preprocess returned, then <<the Template node>>
  segmentsStack, \* let segmentsStack (<<>> while not yet created)
  mappingsStack, \* let mappingsStack (<<>> while not yet created)
  indent,        \* let indent
  offset,        \* let offset
  needsIndent,   \* let needsIndent
  errors,        \* let errors
  frames,        \* the captureMapping calls now executing, innermost first:
                 \* their locals start, hbsRange and source, and history
                 \* fields describing the moment the call began
  returned,      \* <<>>, or <<the RewriteResult returned>>; its result field
                 \* is <<>> when absent
  ops,           \* number of emit calls the driver has made
  ref,           \* history: emission state of the same driver run with every
                 \* forNode call whose callback threw left out
  refOk,         \* history: no callback that threw had called indent/dedent
  caught,        \* history: number of exceptions caught by captureMapping
  rootEmitted,   \* history: characters emitted while no capture was open
  nestingOk,     \* history: every capture so far was opened with a source
                 \* range inside the range of the capture enclosing it
  lastExit,      \* history: how the most recent captureMapping call ended
  hist,          \* history: the driver's latest call and what its indent,
                 \* dedent, newline and text calls so far add up to
  located        \* <<>>, or <<a node and the range the line-offset index
                 \* returned for it>>

vars ==
  <<pc, template, ast, segmentsStack, mappingsStack, indent, offset,
    needsIndent, errors, frames, returned, ops, ref, refOk, caught,
    rootEmitted, nestingOk, lastExit, hist, located>>

\* The emission state as a record.
Cur ==
  [segmentsStack |-> segmentsStack,
   mappingsStack |-> mappingsStack,
   indent |-> indent,
   offset |-> offset,
   needsIndent |-> needsIndent,
   errors |-> errors]

\* The emission state before mapTemplateContents has created it.
NotCreated ==
  [segmentsStack |-> <<>>,
   mappingsStack |-> <<>>,
   indent |-> <<>>,
   offset |-> 0,
   needsIndent |-> FALSE,
   errors |-> <<>>]

\* The next emission state is st.
Becomes(st) ==
  /\ segmentsStack' = st.segmentsStack
  /\ mappingsStack' = st.mappingsStack
  /\ indent' = st.indent
  /\ offset' = st.offset
  /\ needsIndent' = st.needsIndent
  /\ errors' = st.errors

NoExit ==
  [kind |-> "none", emitted |-> 0, nodes |-> 0, errors |-> 0, depth |-> 0,
   indentCalled |-> FALSE]

\* The history before the driver has made a call.
NoHistory == [lastOp |-> "none", folded |-> 0, signed |-> 0, pending |-> FALSE]

\* The history after the driver's call op ("return" and "throw" being the
\* ends of a forNode callback):
\*   folded   the indent depth obtained by folding +1 for indent and
\*            max(0, depth - 1) for dedent over the calls,
\*   signed   the number of indent calls minus the number of dedent calls,
\*   pending  whether newline was called and neither text nor identifier
\*            since.
Note(h, op) ==
  [lastOp |-> op,
   folded |-> IF op = "indent" THEN h.folded + 1
              ELSE IF op = "dedent" /\ h.folded > 0 THEN h.folded - 1
              ELSE h.folded,
   signed |-> IF op = "indent" THEN h.signed + 1
              ELSE IF op = "dedent" THEN h.signed - 1
              ELSE h.signed,
   pending |-> IF op = "newline" THEN TRUE
               ELSE IF op \in {"text", "identifier"} THEN FALSE
               ELSE h.pending]

Within(inner, outer) == outer.start <= inner.start /\ inner.end <= outer.end

\* Source range of the innermost open capture, or of the whole template.
EnclosingRange ==
  IF frames = <<>> THEN rangeForNode(template, ast[1]) ELSE frames[1].hbsRange

Init ==
  /\ pc = "start"
  /\ template \in Templates
  /\ ast = <<>>
  /\ segmentsStack = NotCreated.segmentsStack
  /\ mappingsStack = NotCreated.mappingsStack
  /\ indent = NotCreated.indent
  /\ offset = NotCreated.offset
  /\ needsIndent = NotCreated.needsIndent
  /\ errors = NotCreated.errors
  /\ frames = <<>>
  /\ returned = <<>>
  /\ ops = 0
  /\ ref = NotCreated
  /\ refOk = TRUE
  /\ caught = 0
  /\ rootEmitted = 0
  /\ nestingOk = TRUE
  /\ lastExit = NoExit
  /\ hist = NoHistory
  /\ located = <<>>

\* ---------------------------------------------------------------- actions
\* The early return with an empty location.
ParseFail_EmptyLocation(message) ==
  /\ pc = "start"
  /\ pc' = "returned"
  /\ returned' = <<[errors |-> <<[message |-> message,
                                  location |-> [start |-> 0, end |-> 0]]>>,
                    result |-> <<>>]>>
  /\ UNCHANGED <<hist, located, template, ast, segmentsStack, mappingsStack, indent, offset,
                 needsIndent, errors, frames, ops, ref, refOk, caught,
                 rootEmitted, nestingOk, lastExit>>

\* preprocess(template) throws: the early return of mapTemplateContents.
ParseFail(message) ==
  /\ pc = "start"
  /\ pc' = "returned"
  /\ returned' = <<[errors |-> <<[message |-> message,
                                  location |-> [start |-> 0, end |-> Len(template)]]>>,
                    result |-> <<>>]>>
  /\ UNCHANGED <<hist, located, template, ast, segmentsStack, mappingsStack, indent, offset,
                 needsIndent, errors, frames, ops, ref, refOk, caught,
                 rootEmitted, nestingOk, lastExit>>

\* preprocess(template) returns: the closure state is created and the driver
\* callback is entered.
ParseOk ==
  /\ pc = "start"
  /\ pc' = "driver"
  /\ ast' = <<TemplateNode(template)>>
  /\ Becomes(EmissionInit)
  /\ ref' = EmissionInit
  /\ UNCHANGED <<hist, located, template, frames, returned, ops, refOk, caught, rootEmitted,
                 nestingOk, lastExit>>

CanEmit == pc = "driver" /\ ops < MaxOps

\* Characters added to the output by a step made while no capture is open.
RootGrowth(st) == IF frames = <<>> THEN st.offset - offset ELSE 0

\* The driver calls emit.indent().
Indent ==
  /\ CanEmit
  /\ Becomes(EmitIndent(Cur))
  /\ ref' = EmitIndent(ref)
  /\ frames' = [i \in DOMAIN frames |-> [frames[i] EXCEPT !.indentCalled = TRUE]]
  /\ ops' = ops + 1
  /\ hist' = Note(hist, "indent")
  /\ UNCHANGED <<located, pc, template, ast, returned, refOk, caught, rootEmitted,
                 nestingOk, lastExit>>

\* The driver calls emit.dedent().
Dedent ==
  /\ CanEmit
  /\ Becomes(EmitDedent(Cur))
  /\ ref' = EmitDedent(ref)
  /\ frames' = [i \in DOMAIN frames |-> [frames[i] EXCEPT !.indentCalled = TRUE]]
  /\ ops' = ops + 1
  /\ hist' = Note(hist, "dedent")
  /\ UNCHANGED <<located, pc, template, ast, returned, refOk, caught, rootEmitted,
                 nestingOk, lastExit>>

\* The driver calls emit.newline().
Newline ==
  /\ CanEmit
  /\ Becomes(EmitNewline(Cur))
  /\ ref' = EmitNewline(ref)
  /\ rootEmitted' = rootEmitted + RootGrowth(EmitNewline(Cur))
  /\ ops' = ops + 1
  /\ hist' = Note(hist, "newline")
  /\ UNCHANGED <<located, pc, template, ast, frames, returned, refOk, caught,
                 nestingOk, lastExit>>

\* The driver calls emit.text(value).
Text(value) ==
  /\ CanEmit
  /\ Becomes(EmitText(Cur, value))
  /\ ref' = EmitText(ref, value)
  /\ rootEmitted' = rootEmitted + RootGrowth(EmitText(Cur, value))
  /\ ops' = ops + 1
  /\ hist' = Note(hist, "text")
  /\ UNCHANGED <<located, pc, template, ast, frames, returned, refOk, caught,
                 nestingOk, lastExit>>

\* The driver calls emit.identifier(value, hbsOffset, hbsLength).
IdentifierCall(args) ==
  LET st == EmitIdentifier(Cur, args[1], args[2], args[3])
      len == IF args[3] = Undefined THEN Len(args[1]) ELSE args[3]
  IN /\ CanEmit
     /\ Becomes(st)
     /\ ref' = EmitIdentifier(ref, args[1], args[2], args[3])
     /\ ops' = ops + 1
     /\ nestingOk' = (nestingOk /\ Within([start |-> args[2], end |-> args[2] + len],
                                          EnclosingRange))
     /\ lastExit' = [kind |-> IF st.offset = offset THEN "empty" ELSE "commit",
                     emitted |-> st.offset - offset, nodes |-> 0, errors |-> 0,
                     depth |-> Len(frames) + 1,
                     indentCalled |-> FALSE]
     /\ hist' = Note(hist, "identifier")
     /\ UNCHANGED <<located, pc, template, ast, frames, returned, refOk, caught, rootEmitted>>

\* The driver calls emit.forNode(node, callback): captureMapping runs up to
\* the call of callback.
ForNodeEnter(node) ==
  /\ CanEmit
  /\ Len(frames) < MaxDepth
  /\ frames' = <<[start |-> offset,
                  hbsRange |-> rangeForNode(template, node),
                  source |-> node,
                  entry |-> Cur,
                  refEntry |-> ref,
                  indentCalled |-> FALSE]>> \o frames
  /\ Becomes(CaptureEnter(Cur))
  /\ ref' = CaptureEnter(ref)
  /\ ops' = ops + 1
  /\ nestingOk' = (nestingOk /\ Within(rangeForNode(template, node), EnclosingRange))
  /\ hist' = Note(hist, "forNode")
  /\ UNCHANGED <<located, pc, template, ast, returned, refOk, caught, rootEmitted, lastExit>>

\* The callback of the innermost forNode returns: captureMapping runs to its
\* end.
ForNodeReturn ==
  /\ pc = "driver"
  /\ frames # <<>>
  /\ LET fr == frames[1]
         st == CaptureExit(Cur, fr.start, fr.hbsRange, fr.source)
     IN /\ Becomes(st)
        /\ ref' = CaptureExit(ref, fr.refEntry.offset, fr.hbsRange, fr.source)
        /\ lastExit' = [kind |-> IF offset = fr.start THEN "empty" ELSE "commit",
                        emitted |-> offset - fr.start,
                        nodes |-> Len(mappingsStack[1]),
                        errors |-> Len(errors) - Len(fr.entry.errors),
                        depth |-> Len(frames),
                        indentCalled |-> fr.indentCalled]
  /\ frames' = Tail(frames)
  /\ hist' = Note(hist, "return")
  /\ UNCHANGED <<located, pc, template, ast, returned, ops, refOk, caught, rootEmitted,
                 nestingOk>>

\* The callback of the innermost forNode throws: the catch block runs, then
\* captureMapping runs to its end.
ForNodeThrow(message) ==
  /\ pc = "driver"
  /\ frames # <<>>
  /\ LET fr == frames[1]
         st == CaptureExit(CaptureCatch(Cur, fr.start, fr.hbsRange, message),
                           fr.start, fr.hbsRange, fr.source)
     IN /\ Becomes(st)
        /\ ref' = IF fr.indentCalled
                  THEN CaptureExit(CaptureCatch(ref, fr.refEntry.offset, fr.hbsRange, message),
                                   fr.refEntry.offset, fr.hbsRange, fr.source)
                  ELSE fr.refEntry
        /\ refOk' = (refOk /\ ~fr.indentCalled)
        /\ lastExit' = [kind |-> "throw",
                        emitted |-> offset - fr.start,
                        nodes |-> Len(mappingsStack[1]),
                        errors |-> Len(errors) - Len(fr.entry.errors),
                        depth |-> Len(frames),
                        indentCalled |-> fr.indentCalled]
  /\ caught' = caught + 1
  /\ frames' = Tail(frames)
  /\ hist' = Note(hist, "throw")
  /\ UNCHANGED <<located, pc, template, ast, returned, ops, rootEmitted, nestingOk>>

\* The driver callback throws while no forNode callback is running: nothing
\* in mapTemplateContents catches it.
DriverThrow ==
  /\ pc = "driver"
  /\ frames = <<>>
  /\ pc' = "escaped"
  /\ UNCHANGED <<hist, located, template, ast, segmentsStack, mappingsStack, indent, offset,
                 needsIndent, errors, frames, returned, ops, ref, refOk,
                 caught, rootEmitted, nestingOk, lastExit>>

\* The code and mapping mapTemplateContents builds from an emission state.
Result(st) ==
  LET code == Join(st.segmentsStack[1])
  IN [code |-> code,
      mapping |-> MappingTree([start |-> 0, end |-> Len(code)],
                              rangeForNode(template, ast[1]),
                              st.mappingsStack[1],
                              ast[1])]

\* The driver callback returns: the assertion, then the result is built.
DriverReturn ==
  /\ pc = "driver"
  /\ frames = <<>>
  /\ IF Len(segmentsStack) = 1
     THEN /\ pc' = "returned"
          /\ returned' = <<[errors |-> errors, result |-> <<Result(Cur)>>]>>
     ELSE /\ pc' = "escaped"
          /\ UNCHANGED returned
  /\ UNCHANGED <<hist, located, template, ast, segmentsStack, mappingsStack, indent, offset,
                 needsIndent, errors, frames, ops, ref, refOk, caught,
                 rootEmitted, nestingOk, lastExit>>

Next ==
  \/ \E message \in ParseErrors : ParseFail(message)
  \/ ParseOk
  \/ Indent
  \/ Dedent
  \/ Newline
  \/ \E value \in TextValues : Text(value)
  \/ \E args \in IdentifierArgs : IdentifierCall(args)
  \/ \E node \in AstNodes(template) : ForNodeEnter(node)
  \/ ForNodeReturn
  \/ \E message \in DriverErrors : ForNodeThrow(message)
  \/ DriverThrow
  \/ DriverReturn

Spec == Init /\ [][Next]_vars

\* ---------------------------------------------------------------- trees
\* s is an initial part of t.
IsPrefix(s, t) == Len(s) <= Len(t) /\ SubSeq(t, 1, Len(s)) = s

\* The rewrite returned a RewriteResult whose result is present.
HasResult == returned # <<>> /\ returned[1].result # <<>>

\* The code and the root mapping node of the returned result.
Code == returned[1].result[1].code
Root == returned[1].result[1].mapping

\* The node an open scope would commit now: scope 1 is the innermost, the
\* last one is the root scope.
OpenScope(i) ==
  MappingTree([start |-> IF i <= Len(frames) THEN frames[i].start ELSE 0,
               end |-> offset],
              IF i <= Len(frames) THEN frames[i].hbsRange
              ELSE rangeForNode(template, ast[1]),
              mappingsStack[i],
              IF i <= Len(frames) THEN frames[i].source ELSE ast[1])

\* Every tree the rewrite holds: the returned one, or one per open scope.
Trees ==
  IF HasResult THEN {Root}
  ELSE IF pc = "driver" THEN {OpenScope(i) : i \in 1..Len(mappingsStack)}
  ELSE {}

RECURSIVE OutputNested(_)
\* In the tree under node, children lie inside their parent's outputRange,
\* are ordered by outputRange.start and do not overlap.
OutputNested(node) ==
  \A i \in 1..Len(node.children) :
    LET c == node.children[i]
    IN /\ c.outputRange.start <= c.outputRange.end
       /\ Within(c.outputRange, node.outputRange)
       /\ i > 1 => /\ node.children[i - 1].outputRange.start <= c.outputRange.start
                   /\ node.children[i - 1].outputRange.end <= c.outputRange.start
       /\ OutputNested(c)

RECURSIVE SourceNested(_)
\* In the tree under node, children lie inside their parent's sourceRange.
SourceNested(node) ==
  \A i \in 1..Len(node.children) :
    /\ Within(node.children[i].sourceRange, node.sourceRange)
    /\ SourceNested(node.children[i])

RECURSIVE NonEmptyBelow(_)
\* Every node below node covers at least one character of output.
NonEmptyBelow(node) ==
  \A i \in 1..Len(node.children) :
    /\ node.children[i].outputRange.start < node.children[i].outputRange.end
    /\ NonEmptyBelow(node.children[i])

RECURSIVE Height(_)
\* Number of levels of nodes below node.
Height(node) ==
  IF node.children = <<>> THEN 0
  ELSE LET hs == {Height(node.children[i]) : i \in 1..Len(node.children)}
       IN 1 + CHOOSE h \in hs : \A k \in hs : k <= h

RECURSIVE CoveredText(_, _)
\* Concatenation of the slices of code at the outputRanges of children.
CoveredText(code, children) ==
  IF children = <<>> THEN <<>>
  ELSE SubSeq(code, Head(children).outputRange.start + 1, Head(children).outputRange.end)
         \o CoveredText(code, Tail(children))

\* A step in which the innermost forNode callback throws.
ThrowStep == \E message \in DriverErrors : ForNodeThrow(message)

\* ---------------------------------------------------------------- claims
\* C1. Rollback on failure: when a forNode callback throws, at any depth, the
\* output offset is again what it was when the call began, the parent scope
\* holds exactly the mapping nodes and segments it held when the call began
\* (nothing of the failed scope or of scopes committed inside it), and
\* exactly one error is appended, located at the scope's source range.
C1_RollbackOnFailure ==
  [][ThrowStep =>
       LET fr == frames[1]
       IN /\ offset' = fr.entry.offset
          /\ mappingsStack' = fr.entry.mappingsStack
          /\ segmentsStack' = fr.entry.segmentsStack
          /\ Len(errors') = Len(errors) + 1
          /\ SubSeq(errors', 1, Len(errors)) = errors
          /\ errors'[Len(errors')].location = fr.hbsRange]_vars

\* A nested forNode callback emitted text, had a nested scope commit a node,
\* and then threw.
C1_Witness ==
  /\ lastExit.kind = "throw"
  /\ lastExit.depth = 2
  /\ lastExit.emitted > 0
  /\ lastExit.nodes > 0

\* C2. Output containment: in every mapping tree (the returned one and the
\* one each open scope is building), each child's outputRange lies inside its
\* parent's, children are ordered by outputRange.start, and each sibling
\* starts at or after the end of the previous one.
C2_OutputContainment == \A tree \in Trees : OutputNested(tree)

\* A returned tree two levels deep with two sibling nodes under one parent,
\* from a run in which a scope failed and a scope was empty.
C2_Witness ==
  /\ HasResult
  /\ Height(Root) >= 2
  /\ \E i \in 1..Len(Root.children) : Len(Root.children[i].children) >= 2
  /\ caught > 0

\* C3. Empty-scope elimination: a forNode or identifier call that returns
\* normally with the output offset unchanged leaves the parent scope's child
\* list and segment list as they were when the call began; and every
\* non-root node of every tree has outputRange.start < outputRange.end.
C3_EmptyScopeElimination ==
  /\ [][/\ (ForNodeReturn /\ offset = frames[1].start) =>
            /\ mappingsStack' = frames[1].entry.mappingsStack
            /\ segmentsStack' = frames[1].entry.segmentsStack
        /\ ((\E args \in IdentifierArgs : IdentifierCall(args)) /\ offset' = offset) =>
            /\ mappingsStack' = mappingsStack
            /\ segmentsStack' = segmentsStack]_vars
  /\ [](\A tree \in Trees : NonEmptyBelow(tree))

\* The last forNode or identifier call ended normally without having
\* emitted a character, in a run that returned a tree with nodes.
C3_Witness ==
  /\ lastExit.kind = "empty"
  /\ HasResult
  /\ Root.children # <<>>
  /\ ops >= 3

\* C4. Offsets never drift: while the driver runs, the output offset equals
\* the total length of the segments held in all open scopes; on return the
\* offset equals the length of code and the root's outputRange is
\* {0, length(code)}.
C4_OffsetsNeverDrift ==
  /\ pc = "driver" => offset = TotalLength(segmentsStack)
  /\ HasResult => /\ offset = Len(Code)
                  /\ Root.outputRange = [start |-> 0, end |-> Len(Code)]

\* A rewrite returned non-empty code after a scope had been rolled back with
\* text in it.
C4_Witness ==
  /\ HasResult
  /\ Len(Code) >= 2
  /\ lastExit.kind = "throw"
  /\ lastExit.emitted > 0

\* C5. A failed scope is as if it had never run: when no callback that threw
\* had called indent or dedent, the returned code and mapping tree are those
\* of the same driver run with the failed forNode calls left out.
C5_FailedScopeAsIfRemoved ==
  (HasResult /\ refOk) => returned[1].result[1] = Result(ref)

\* C6 as stated: once the input has parsed, however the driver ends (a throw
\* from the top-level callback included), the rewrite returns a RewriteResult
\* whose result is present.
C6_EveryThrowIsRecovered ==
  (ast # <<>> /\ pc \notin {"start", "driver"}) => (pc = "returned" /\ HasResult)

\* C6, amended. A throw inside a forNode callback is caught: it adds an entry
\* to errors and the driver goes on; an exception leaves mapTemplateContents
\* only when thrown while no forNode callback is running; a RewriteResult
\* returned for parsed input has its result present and carries one error
\* per caught throw; result is absent only when the input did not parse.
C6_ScopedThrowsAreRecovered ==
  /\ [][ThrowStep => (pc' = "driver" /\ Len(errors') = Len(errors) + 1)]_vars
  /\ [](pc = "escaped" => frames = <<>>)
  /\ [](returned # <<>> =>
          /\ pc = "returned"
          /\ (returned[1].result = <<>>) <=> (ast = <<>>)
          /\ ast # <<>> => Len(returned[1].errors) = caught)

\* The rewrite returned a present result together with the errors of two
\* callbacks that threw.
C6_Witness ==
  /\ HasResult
  /\ caught = 2
  /\ Len(returned[1].errors) = 2

\* C7. Parse failure: when the parser throws, the rewrite returns at once a
\* RewriteResult without result whose errors hold exactly one entry, with
\* the parser's message and location {0, length(template)}; the driver has
\* made no call and no emission state exists.
C7_ParseFailureIsFatal ==
  /\ [][\A message \in ParseErrors :
          ParseFail(message) =>
            /\ pc' = "returned"
            /\ returned' = <<[errors |-> <<[message |-> message,
                                            location |-> [start |-> 0,
                                                          end |-> Len(template)]]>>,
                              result |-> <<>>]>>]_vars
  /\ []((returned # <<>> /\ ast = <<>>) =>
          /\ ~HasResult
          /\ Len(returned[1].errors) = 1
          /\ returned[1].errors[1].location = [start |-> 0, end |-> Len(template)]
          /\ Cur = NotCreated
          /\ ops = 0
          /\ frames = <<>>)

\* The parser threw on a three-character template and the rewrite returned.
C7_Witness ==
  /\ pc = "returned"
  /\ ast = <<>>
  /\ returned[1].result = <<>>
  /\ returned[1].errors[1].location.end = 3

\* C8 as stated: the slices of code at the outputRanges of the root's
\* children, concatenated in order, are the returned code.
C8_RootChildrenTileCode ==
  HasResult => CoveredText(Code, Root.children) = Code

RECURSIVE CoveredLength(_)
\* Total length of the outputRanges of children.
CoveredLength(children) ==
  IF children = <<>> THEN 0
  ELSE Head(children).outputRange.end - Head(children).outputRange.start
         + CoveredLength(Tail(children))

\* C8, amended. The root's children cover the returned code except for the
\* characters the driver emitted while no capture was open: their
\* outputRanges lie in [0, length(code)), and their total length is
\* length(code) minus the number of characters emitted directly in the root
\* scope; when the driver emitted nothing there, their slices concatenated
\* in order are the code exactly.
C8_RootChildrenCoverScopedText ==
  HasResult =>
    /\ \A i \in 1..Len(Root.children) :
         Within(Root.children[i].outputRange, [start |-> 0, end |-> Len(Code)])
    /\ CoveredLength(Root.children) = Len(Code) - rootEmitted
    /\ rootEmitted = 0 => CoveredText(Code, Root.children) = Code

\* A run that emitted only inside captures, one of which was rolled back
\* with text in it, returned code tiled by two root children.
C8_Witness ==
  /\ HasResult
  /\ rootEmitted = 0
  /\ Len(Root.children) >= 2
  /\ caught > 0
  /\ lastExit.kind = "throw"
  /\ lastExit.emitted > 0

\* C9 as stated: in every tree, each child's sourceRange lies inside its
\* parent's sourceRange.
C9_SourceContainment == \A tree \in Trees : SourceNested(tree)

\* C9, amended. A node's sourceRange is the range its capture call was
\* given, so each child's sourceRange lies inside its parent's whenever the
\* driver opened every capture (forNode on a node, identifier with its
\* offset and length) with a source range inside that of the capture
\* enclosing it, the whole template at top level.
C9_SourceContainmentOfNestedDrivers ==
  nestingOk => \A tree \in Trees : SourceNested(tree)

\* A returned tree two levels deep built by a driver that nested its source
\* ranges.
C9_Witness ==
  /\ HasResult
  /\ nestingOk
  /\ Height(Root) >= 2
  /\ \E i \in 1..Len(Root.children) :
       Root.children[i].sourceRange # Root.sourceRange

\* C10. Errors accumulate: the errors list only grows by appending; each
\* caught throw appends one entry located at the source range of the scope
\* whose callback threw; the list has one entry per caught throw, also after
\* an enclosing scope threw or stayed empty; the returned errors are that
\* list.
C10_ErrorsAccumulate ==
  /\ [][IsPrefix(errors, errors')]_vars
  /\ [][ThrowStep =>
          errors' = Append(errors, [message |-> errors'[Len(errors')].message,
                                    location |-> frames[1].hbsRange])]_vars
  /\ [](Len(errors) = caught)
  /\ [](HasResult => returned[1].errors = errors)

\* A scope threw after a scope nested in it had already recorded an error,
\* and both errors, at different locations, are in the returned list.
C10_Witness ==
  /\ HasResult
  /\ lastExit.kind = "throw"
  /\ lastExit.errors > 0
  /\ Len(returned[1].errors) = 2
  /\ returned[1].errors[1].location # returned[1].errors[2].location

\* ---------------------------------------------------------------- emitted text
RECURSIVE FullText(_)
\* The output text held by a segment stack, outermost scope first.
FullText(stack) ==
  IF stack = <<>> THEN <<>> ELSE FullText(Tail(stack)) \o Join(Head(stack))

\* The emission state after the step.
CurNext ==
  [segmentsStack |-> segmentsStack',
   mappingsStack |-> mappingsStack',
   indent |-> indent',
   offset |-> offset',
   needsIndent |-> needsIndent',
   errors |-> errors']

\* The characters a call emit.text(value) made in the state st would emit.
Emitted(st, value) ==
  LET before == FullText(st.segmentsStack)
      after == FullText(EmitText(st, value).segmentsStack)
  IN SubSeq(after, Len(before) + 1, Len(after))

\* The slice of text at range.
TextAt(text, range) == SubSeq(text, range.start + 1, range.end)

\* C11. emit.identifier(value, offset, length) with a non-empty value adds
\* exactly one mapping node, with an Identifier origin and sourceRange
\* {offset, offset + length} (length defaulting to length(value)), whose
\* outputRange is exactly the span of value in the output: as long as value
\* and covering value.
C11_IdentifierMapsItsValue ==
  [][\A args \in IdentifierArgs :
       (IdentifierCall(args) /\ args[1] # <<>>) =>
         LET len == IF args[3] = Undefined THEN Len(args[1]) ELSE args[3]
             node == mappingsStack'[1][Len(mappingsStack'[1])]
         IN /\ mappingsStack'[1] = Append(mappingsStack[1], node)
            /\ node.source = Identifier(args[1])
            /\ node.sourceRange = [start |-> args[2], end |-> args[2] + len]
            /\ node.outputRange.end - node.outputRange.start = Len(args[1])
            /\ TextAt(FullText(segmentsStack'), node.outputRange) = args[1]]_vars

\* C12 as stated: a call of indent or dedent does not change what a text
\* call made before the next newline emits.
C12_IndentWaitsForNextNewline ==
  [][(Indent \/ Dedent) =>
       \A value \in TextValues : Emitted(CurNext, value) = Emitted(Cur, value)]_vars

\* C12, amended. A call of indent or dedent emits nothing and changes only
\* the indentation prefix.  When no newline is pending at the call, a text
\* call made before the next newline emits its value and nothing else, as
\* without the call; when a newline is pending at the call, the next text
\* call emits the changed prefix before its value.
C12_IndentAppliesToPendingLine ==
  [][(Indent \/ Dedent) =>
       /\ offset' = offset
       /\ segmentsStack' = segmentsStack
       /\ mappingsStack' = mappingsStack
       /\ needsIndent' = needsIndent
       /\ \A value \in TextValues :
            Emitted(CurNext, value) =
              IF needsIndent THEN indent' \o value ELSE Emitted(Cur, value)
       /\ ~needsIndent => \A value \in TextValues : Emitted(CurNext, value) = value]_vars

\* indent was just called with text already emitted, a prefix in force and
\* no newline pending.
C12_Witness ==
  /\ hist.lastOp = "indent"
  /\ ~needsIndent
  /\ offset > 0
  /\ Len(indent) = 4

\* ---------------------------------------------------------------- line-offset index on its own
\* Characters of the templates given to the line-offset index.
Alphabet == {"a", " ", "\n"}

RECURSIVE StringsOfLen(_)
\* The strings of n characters.
StringsOfLen(n) ==
  IF n = 0 THEN {<<>>}
  ELSE {Append(str, c) : str \in StringsOfLen(n - 1), c \in Alphabet}

\* The templates given to the line-offset index.
LineTemplates == UNION {StringsOfLen(n) : n \in 0..MaxLen}

\* Types of the nodes looked up.
NodeTypes == {"ElementNode", "TextNode"}

InitLines ==
  /\ pc = "lines"
  /\ template \in LineTemplates
  /\ ast = <<>>
  /\ segmentsStack = NotCreated.segmentsStack
  /\ mappingsStack = NotCreated.mappingsStack
  /\ indent = NotCreated.indent
  /\ offset = NotCreated.offset
  /\ needsIndent = NotCreated.needsIndent
  /\ errors = NotCreated.errors
  /\ frames = <<>>
  /\ returned = <<>>
  /\ ops = 0
  /\ ref = NotCreated
  /\ refOk = TRUE
  /\ caught = 0
  /\ rootEmitted = 0
  /\ nestingOk = TRUE
  /\ lastExit = NoExit
  /\ hist = NoHistory
  /\ located = <<>>

\* calculateLineOffsets(template)(node) for the node of the given type that
\* the parser places at the characters [from, to) of the template.
Locate(from, to, type) ==
  /\ pc = "lines"
  /\ from <= to
  /\ LET node == AstNode(template, from, to, type)
     IN located' = <<[node |-> node, from |-> from, to |-> to,
                      range |-> rangeForNode(template, node)]>>
  /\ UNCHANGED <<pc, template, ast, segmentsStack, mappingsStack, indent,
                 offset, needsIndent, errors, frames, returned, ops, ref,
                 refOk, caught, rootEmitted, nestingOk, lastExit, hist>>

NextLines ==
  \E from \in 0..Len(template), to \in 0..Len(template), type \in NodeTypes :
    Locate(from, to, type)

SpecLines == InitLines /\ [][NextLines]_vars

\* C13. Line-offset index: for the location (1-indexed line, 0-indexed
\* column) of every character index of every template, offsets[line] +
\* column is that index; and the range returned for a node that is not a
\* text node is {offset(start), offset(end)}.
C13_LineOffsetIndex ==
  located # <<>> =>
    LET q == located[1]
        offsets == LineOffsets(template)
    IN /\ offsets[q.node.loc.start.line] + q.node.loc.start.column = q.from
       /\ offsets[q.node.loc.end.line] + q.node.loc.end.column = q.to
       /\ q.node.type # "TextNode" => q.range = [start |-> q.from, end |-> q.to]

\* A node that is not a text node was looked up, starting on line 2 and
\* ending at column 1 of line 3.
C13_Witness ==
  /\ located # <<>>
  /\ located[1].node.type = "ElementNode"
  /\ located[1].node.loc.start.line = 2
  /\ located[1].node.loc.end = [line |-> 3, column |-> 1]
  /\ located[1].range = [start |-> 1, end |-> 3]

\* The number of whitespace characters s starts with.
LeadingWhitespace(s) ==
  CHOOSE k \in 0..Len(s) :
    /\ \A j \in 1..k : s[j] \in Whitespace
    /\ k < Len(s) => s[k + 1] \notin Whitespace

\* The number of whitespace characters s ends with.
TrailingWhitespace(s) ==
  CHOOSE k \in 0..Len(s) :
    /\ \A j \in (Len(s) - k + 1)..Len(s) : s[j] \in Whitespace
    /\ k < Len(s) => s[Len(s) - k] \notin Whitespace

\* C14. Text-node trimming: the range of a text node whose text is not all
\* whitespace is the untrimmed range with start moved forward by the leading
\* whitespace run and end moved back by the trailing one, and has
\* start <= end; the range of a text node whose text is all whitespace or
\* empty is untrimmed; the range of another node is untrimmed.
C14_TextNodeTrimming ==
  located # <<>> =>
    LET q == located[1]
        chars == q.node.chars
    IN IF q.node.type = "TextNode" /\ \E j \in 1..Len(chars) : chars[j] \notin Whitespace
       THEN /\ q.range = [start |-> q.from + LeadingWhitespace(chars),
                          end |-> q.to - TrailingWhitespace(chars)]
            /\ q.range.start <= q.range.end
       ELSE q.range = [start |-> q.from, end |-> q.to]

\* A text node with whitespace on both sides of its text was looked up and
\* its range was trimmed on both sides.
C14_Witness ==
  /\ located # <<>>
  /\ located[1].node.type = "TextNode"
  /\ located[1].node.chars = <<"\n", "a", " ">>
  /\ located[1].range = [start |-> 1, end |-> 2]

\* ---------------------------------------------------------------- scopes and nodes
\* A step in which the driver calls emit.identifier.
IdentifierStep == \E args \in IdentifierArgs : IdentifierCall(args)

\* The node the step appended to the innermost scope left open.
NewNode == mappingsStack'[1][Len(mappingsStack'[1])]

\* The text the step added at the end of the output.
Added ==
  SubSeq(FullText(segmentsStack'), Len(FullText(segmentsStack)) + 1,
         Len(FullText(segmentsStack')))

\* C15. Every mapping node explains exactly the text its scope emitted: when
\* a capture call commits a node, the slice of the output at the node's
\* outputRange is the concatenation of the segments the scope then holds
\* (what was emitted during the call and survived the rollback or discard of
\* the scopes nested in it); afterwards every step leaves the output as it
\* was up to the smaller of the old and the new offset, and every node ends
\* at or before the offset, so that the slice is still the same in the
\* returned code, whose length no outputRange exceeds.
C15_NodesExplainTheirText ==
  /\ [][(ForNodeReturn /\ offset # frames[1].start) =>
          /\ NewNode.outputRange = [start |-> frames[1].start, end |-> offset]
          /\ TextAt(FullText(segmentsStack'), NewNode.outputRange)
               = Join(segmentsStack[1])]_vars
  /\ [][(IdentifierStep /\ offset' # offset) =>
          /\ NewNode.outputRange = [start |-> offset, end |-> offset']
          /\ TextAt(FullText(segmentsStack'), NewNode.outputRange) = Added]_vars
  /\ [][pc = "driver" =>
          LET m == IF offset' < offset THEN offset' ELSE offset
          IN SubSeq(FullText(segmentsStack'), 1, m)
               = SubSeq(FullText(segmentsStack), 1, m)]_vars
  /\ [](pc = "driver" =>
          /\ Len(FullText(segmentsStack)) = offset
          /\ \A tree \in Trees : tree.outputRange.end = offset /\ OutputNested(tree))
  /\ [](HasResult =>
          /\ Code = FullText(segmentsStack)
          /\ Root.outputRange.end = Len(Code)
          /\ OutputNested(Root))

\* A top-level forNode call committed a node that has a child, after a scope
\* nested in it had thrown with text in it.
C15_Witness ==
  /\ hist.lastOp = "return"
  /\ lastExit.kind = "commit"
  /\ lastExit.depth = 1
  /\ lastExit.nodes > 0
  /\ lastExit.errors > 0

\* C16. Tree nesting mirrors call nesting: the list of nodes of a scope
\* changes only when a capture call made directly in it commits, and then by
\* one node appended at its end; that node has as children exactly the list
\* of the scope that ends, and the origin and source range of the call; the
\* lists of the other open scopes are not touched; a scope that does not
\* commit is dropped with its list; and the root's children are the list of
\* the root scope.
C16_TreeMirrorsCalls ==
  /\ [][ForNodeReturn =>
          IF offset # frames[1].start
          THEN /\ mappingsStack' =
                    [Tail(mappingsStack) EXCEPT ![1] = Append(mappingsStack[2], NewNode)]
               /\ NewNode.children = mappingsStack[1]
               /\ NewNode.source = frames[1].source
               /\ NewNode.sourceRange = frames[1].hbsRange
          ELSE mappingsStack' = Tail(mappingsStack)]_vars
  /\ [][ThrowStep => mappingsStack' = Tail(mappingsStack)]_vars
  /\ [][IdentifierStep =>
          IF offset' # offset
          THEN /\ mappingsStack' =
                    [mappingsStack EXCEPT ![1] = Append(mappingsStack[1], NewNode)]
               /\ NewNode.children = <<>>
               /\ NewNode.source.type = "Identifier"
          ELSE mappingsStack' = mappingsStack]_vars
  /\ [][(pc = "driver" /\ ~ForNodeReturn /\ ~ThrowStep /\ ~IdentifierStep) =>
          \/ mappingsStack' = mappingsStack
          \/ mappingsStack' = << <<>> >> \o mappingsStack]_vars
  /\ [](HasResult => Root.children = mappingsStack[1] /\ Len(mappingsStack) = 1)

\* The returned root has two children in the order of their calls, the
\* second of which has a child of its own.
C16_Witness ==
  /\ HasResult
  /\ Len(Root.children) = 2
  /\ Root.children[1].source.type = "Identifier"
  /\ Root.children[2].source.type = "ElementNode"
  /\ Len(Root.children[2].children) = 1

\* C17. Scope stack discipline: while the driver runs, the segment stack and
\* the child-node stack are both one deeper than the number of capture calls
\* executing; a capture call that ends, by return or by throw, with or
\* without output, leaves both stacks as deep as they were when it began and
\* the enclosing scopes' segments below the top as they were; so the
\* assertion made when the driver returns holds.
C17_StackDiscipline ==
  /\ [](pc = "driver" =>
          /\ Len(segmentsStack) = 1 + Len(frames)
          /\ Len(mappingsStack) = 1 + Len(frames))
  /\ [][(ForNodeReturn \/ ThrowStep) =>
          /\ Len(segmentsStack') = Len(frames[1].entry.segmentsStack)
          /\ Len(mappingsStack') = Len(frames[1].entry.mappingsStack)
          /\ Tail(segmentsStack') = Tail(frames[1].entry.segmentsStack)
          /\ Tail(mappingsStack') = Tail(frames[1].entry.mappingsStack)]_vars
  /\ [][IdentifierStep =>
          /\ Len(segmentsStack') = Len(segmentsStack)
          /\ Len(mappingsStack') = Len(mappingsStack)]_vars
  /\ [][DriverReturn => (Len(segmentsStack) = 1 /\ pc' = "returned")]_vars

\* The driver returned after capture calls had ended in each of the three
\* ways: one committed a node, one threw, and the last one was empty.
C17_Witness ==
  /\ HasResult
  /\ Root.children # <<>>
  /\ caught > 0
  /\ lastExit.kind = "empty"
  /\ Len(segmentsStack) = 1

\* C18. Indentation emission rule: a text call (also the one emit.identifier
\* makes) emits the indentation prefix current at the call, once, before its
\* value when newline was called and no text call was made since, in
\* whichever scope, and emits its value alone otherwise; the offset advances
\* by the length of what is emitted; a newline call emits the line break
\* alone and advances the offset by 1.
C18_IndentationEmissionRule ==
  /\ [][\A value \in TextValues :
          Text(value) =>
            /\ Added = (IF hist.pending THEN indent ELSE <<>>) \o value
            /\ offset' = offset + Len(Added)]_vars
  /\ [][\A args \in IdentifierArgs :
          IdentifierCall(args) =>
            /\ Added = (IF hist.pending THEN indent ELSE <<>>) \o args[1]
            /\ offset' = offset + Len(Added)]_vars
  /\ [][Newline => (Added = <<"\n">> /\ offset' = offset + 1)]_vars
  /\ [][pc = "driver" /\ offset' >= offset =>
          SubSeq(FullText(segmentsStack'), 1, offset) = FullText(segmentsStack)]_vars

\* A text call in a forNode callback has just emitted the prefix and its
\* value after a newline called outside the callback.
C18_Witness ==
  /\ hist.lastOp = "text"
  /\ Len(frames) = 1
  /\ frames[1].entry.needsIndent
  /\ FullText(segmentsStack) = <<"\n", " ", " ", "t">>

\* C19. Rollback does not restore indentation state: when a forNode callback
\* throws, the indentation prefix and the pending-indentation flag after the
\* call are those of the moment of the throw; only the offset, the two
\* stacks and the errors list change.
C19_RollbackKeepsIndent ==
  [][ThrowStep =>
       /\ indent' = indent
       /\ needsIndent' = needsIndent
       /\ offset' = frames[1].start
       /\ Len(errors') = Len(errors) + 1]_vars

\* A forNode callback that called indent has just thrown, and the prefix is
\* the one the callback left, not the empty one of the scope's entry.
C19_Witness ==
  /\ hist.lastOp = "throw"
  /\ lastExit.kind = "throw"
  /\ lastExit.indentCalled
  /\ hist.signed = 1
  /\ indent = <<" ", " ">>

\* C20. The indentation prefix consists of spaces and its length is twice
\* the depth obtained by folding +1 for indent and max(0, depth - 1) for
\* dedent over the calls made; dedent on an empty prefix leaves it empty.
C20_IndentIsFoldedDepth ==
  /\ [](/\ \A i \in 1..Len(indent) : indent[i] = " "
        /\ Len(indent) = 2 * hist.folded)
  /\ [][(Dedent /\ indent = <<>>) => indent' = <<>>]_vars

\* After a dedent on the empty prefix and then an indent, the prefix is one
\* unit long although as many dedent as indent calls were made.
C20_Witness ==
  /\ hist.lastOp = "indent"
  /\ hist.signed = 0
  /\ hist.folded = 1
  /\ indent = <<" ", " ">>

====
